---- MODULE Spec2Model ----
(***************************************************************************)
(* A model of the fund-flow tracing code of citizen-opus:                  *)
(*   src/src/network_expander.py           RateLimiter, classifier, BFS    *)
(*   src/src/tools/address_monitor_daemon.py   the monitor daemon          *)
(*   src/src/haiku_tracer.py               batch_trace, depth trace        *)
(*   src/src/tools/multi_hop_tracer.py     trace_hops                      *)
(* Each component has its own specification; the variables of the other    *)
(* components are parked at a fixed value while it runs.                   *)
(***************************************************************************)
EXTENDS Integers, Sequences, FiniteSets, TLC

VARIABLES
    \* ---- is_exchange_deposit_pattern, applied to drawn inputs
    cAddress,          \* the address argument (raw, before .lower())
    cTxs,              \* the txs argument
    cResult,           \* the returned (is_deposit, exchange_name)
    cpc,               \* "call" | "returned"
    cTable,            \* the module-level dict KNOWN_EXCHANGE_HOT_WALLETS, as the process holds it
    cReturned,         \* history: what every call so far returned, in order
    \* ---- bfs_expand (network_expander.py)
    ledger,            \* what the ledger data source holds: [normal, erc20]
    seed_addresses,    \* argument
    max_depth,         \* argument
    direction,         \* argument
    bpc,               \* "start" | "loop" | "done"
    visited,           \* set()
    queue,             \* deque of <<address, depth>>
    graph,             \* dict address -> [depth, analysis]
    kyc_touchpoints,   \* list
    result,            \* the returned dict, once returned
    enqueued,          \* history: every queue.append, in order
    analysed,          \* history: every analyze_address call, in order
    \* ---- the monitor daemon (address_monitor_daemon.py)
    dpc,               \* where main() is
    running,           \* the global flag the signal handler clears
    dstate,            \* main's state["addresses"]: address -> snapshot
    stateFile,         \* STATE_FILE on disk
    alertsFile,        \* ALERTS_FILE on disk
    alerts,            \* the alerts check_addresses returned in this cycle
    check_count,       \* main's check_count
    clock,             \* the number of check_addresses calls so far (their timestamp)
    lastCheck,         \* history: what the last check_addresses read
    cycleError,        \* history: the exception this cycle ended with, or None
    ioFailures,        \* history: how many writes raised so far
    crashes,           \* history: how often the process was killed
    persisted,         \* history: the last document completely written to STATE_FILE
    appended,          \* history: every alert a completed append_alerts call was given
    emitted,           \* history: every alert check_addresses returned, in order
    \* ---- RateLimiter (network_expander.py, haiku_tracer.py)
    time,               \* time.time(), in ticks of 1/RATE_LIMIT second
    tokens,            \* self.tokens
    last_update,       \* self.last_update
    lock,              \* the thread holding self.lock, or None
    wake,              \* thread -> when its time.sleep() is over (-1: not asleep)
    grants,            \* history: the time of every return of acquire()
    \* ---- batch_trace (haiku_tracer.py)
    batch_addresses,   \* the argument addresses
    max_workers,       \* the argument max_workers
    futures,           \* one future per submission: its state and outcome
    collected,         \* the submissions as_completed has yielded so far
    results,           \* the dict results
    bapc,              \* where batch_trace is
    traced,            \* history: the argument of every trace_address call
    \* ---- trace_hops (tools/multi_hop_tracer.py)
    chain,             \* the transfers trace_filter can return, in order
    start_address,     \* the argument start_address
    hop_depth,         \* the argument depth
    min_eth,           \* the argument min_eth
    hop_queue,         \* queue: (address, current_depth, path)
    hop_visited,       \* visited
    hops,              \* graph['hops']
    endpoints,         \* graph['endpoints']
    hpc,               \* where trace_hops is
    \* ---- trace_address_with_depth (haiku_tracer.py)
    flows,             \* the ETH transfers txlist can return, in order
    trace_start,       \* the argument address of the outermost call
    trace_max_depth,   \* the argument max_depth
    trace_traced,      \* the set traced, shared by all the recursive calls
    trace_results,     \* the list results, shared by all the recursive calls
    trace_stack,       \* the calls in progress: address, current_depth, destinations left
    trace_failed,      \* history: how many calls had a failed fetch
    tpc                \* where the outermost call is

bfsVars == <<ledger, seed_addresses, max_depth, direction, bpc, visited, queue,
             graph, kyc_touchpoints, result, enqueued, analysed>>
classifyVars == <<cAddress, cTxs, cResult, cpc, cTable, cReturned>>
daemonVars == <<dpc, running, dstate, stateFile, alertsFile, alerts, check_count,
                clock, lastCheck, cycleError, ioFailures, crashes, persisted,
                appended, emitted>>
limiterVars == <<time, tokens, last_update, lock, wake, grants>>
batchVars == <<batch_addresses, max_workers, futures, collected, results, bapc, traced>>
hopVars == <<chain, start_address, hop_depth, min_eth, hop_queue, hop_visited, hops,
             endpoints, hpc>>
depthVars == <<flows, trace_start, trace_max_depth, trace_traced, trace_results,
               trace_stack, trace_failed, tpc>>
vars == <<classifyVars, bfsVars, daemonVars, limiterVars, batchVars, hopVars, depthVars>>

\* what the actions of one component leave alone
notClassifyVars == <<bfsVars, daemonVars, limiterVars, batchVars, hopVars, depthVars>>
notBfsVars == <<classifyVars, daemonVars, limiterVars, batchVars, hopVars, depthVars>>
notDaemonVars == <<classifyVars, bfsVars, limiterVars, batchVars, hopVars, depthVars>>
notLimiterVars == <<classifyVars, bfsVars, daemonVars, batchVars, hopVars, depthVars>>
notBatchVars == <<classifyVars, bfsVars, daemonVars, limiterVars, hopVars, depthVars>>
notHopVars == <<classifyVars, bfsVars, daemonVars, limiterVars, batchVars, depthVars>>
notDepthVars == <<classifyVars, bfsVars, daemonVars, limiterVars, batchVars, hopVars>>

None == "None"

(***************************************************************************)
(* Sequence helpers.                                                       *)
(***************************************************************************)
SeqsUpTo(S, n) == UNION {[1..k -> S] : k \in 0..n}

Range(s) == {s[i] : i \in 1..Len(s)}

RECURSIVE SumSeq(_)
SumSeq(s) == IF s = <<>> THEN 0 ELSE Head(s) + SumSeq(Tail(s))

\* every ordering of a finite set: list(set) in Python fixes no order
Orderings(S) == {s \in [1..Cardinality(S) -> S] : Range(s) = S}

(***************************************************************************)
(* Addresses.  str.lower(): "A" is the mixed-case spelling of "a".         *)
(***************************************************************************)
Lower(s) == IF s = "A" THEN "a" ELSE s

\* the known-endpoint table: address -> label
KNOWN_EXCHANGE_HOT_WALLETS == [w \in {"x", "y"} |-> IF w = "x" THEN "Exchange X" ELSE "Exchange Y"]

Known == DOMAIN KNOWN_EXCHANGE_HOT_WALLETS

\* a transfer as the API returns it; value 0 is a dust transfer
TxRecord(F, T, V) == [from : F, to : T, value : V]

(***************************************************************************)
(* is_exchange_deposit_pattern(address, txs)                               *)
(***************************************************************************)
\* the bounds of "len(inflows) < 1 or len(inflows) > 20"
MIN_INFLOWS == 1
MAX_INFLOWS == 20

\* destinations = {}; for tx in outflows: destinations[dest] += 1
\* kept as the list of distinct keys in insertion order (a dict keeps it)
RECURSIVE DestKeys(_, _)
DestKeys(outflows, acc) ==
    IF outflows = <<>> THEN acc
    ELSE LET dest == Lower(Head(outflows).to)
         IN DestKeys(Tail(outflows),
                     IF dest \in Range(acc) THEN acc ELSE Append(acc, dest))

DestCount(outflows, dest) ==
    Cardinality({i \in 1..Len(outflows) : Lower(outflows[i].to) = dest})

\* faulty variant: of the tied keys the one inserted last
PrimaryDestLastTied(outflows) ==
    LET keys == DestKeys(outflows, <<>>)
        best == CHOOSE i \in 1..Len(keys) :
                   /\ \A j \in 1..Len(keys) :
                         DestCount(outflows, keys[j]) <= DestCount(outflows, keys[i])
                   /\ \A j \in (i + 1)..Len(keys) :
                         DestCount(outflows, keys[j]) < DestCount(outflows, keys[i])
    IN keys[best]

\* max(destinations, key=destinations.get): the first key, in insertion
\* order, whose count is the largest
PrimaryDest(outflows) ==
    LET keys == DestKeys(outflows, <<>>)
        best == CHOOSE i \in 1..Len(keys) :
                   /\ \A j \in 1..Len(keys) :
                         DestCount(outflows, keys[j]) <= DestCount(outflows, keys[i])
                   /\ \A j \in 1..(i - 1) :
                         DestCount(outflows, keys[j]) < DestCount(outflows, keys[i])
    IN keys[best]

is_exchange_deposit_pattern(address0, txs) ==
    LET address == Lower(address0)
        outflows == SelectSeq(txs, LAMBDA tx : Lower(tx.from) = address)
        inflows  == SelectSeq(txs, LAMBDA tx : Lower(tx.from) # address
                                               /\ Lower(tx.to) = address)
    IN IF txs = <<>> THEN <<FALSE, None>>
       ELSE IF address \in Known THEN <<TRUE, KNOWN_EXCHANGE_HOT_WALLETS[address]>>
       ELSE IF Len(inflows) < MIN_INFLOWS \/ Len(inflows) > MAX_INFLOWS
            THEN <<FALSE, None>>
       ELSE IF outflows = <<>> THEN <<FALSE, None>>
       ELSE IF PrimaryDest(outflows) \in Known
            THEN <<TRUE, KNOWN_EXCHANGE_HOT_WALLETS[PrimaryDest(outflows)]>>
       ELSE <<FALSE, None>>

(***************************************************************************)
(* The classifier applied to drawn inputs.                                 *)
(***************************************************************************)
MaxTxs == 3

ClassifyAddresses == {"a", "A", "x"}
ClassifyPeers == {"a", "b", "x", "y"}
TxValues == {0, 1}

\* what txlist / tokentx return for an address: transfers from it or to it
TxInvolving(address) ==
    {tx \in TxRecord(ClassifyPeers, ClassifyPeers, TxValues) :
        tx.from = address \/ tx.to = address}

\* a history of n inflows from one peer followed by a few outflows
RECURSIVE Repeat(_, _)
Repeat(tx, n) == IF n = 0 THEN <<>> ELSE <<tx>> \o Repeat(tx, n - 1)

MaxSweeps == 2

LongHistories(address) ==
    {Repeat([from |-> "b", to |-> address, value |-> 1], n) \o outs :
        n \in {MAX_INFLOWS, MAX_INFLOWS + 1},
        outs \in SeqsUpTo({tx \in TxInvolving(address) : tx.from = address /\ tx.value = 1},
                          MaxSweeps)}

BfsParked ==
    /\ ledger = [normal |-> <<>>, erc20 |-> <<>>]
    /\ seed_addresses = <<>>
    /\ max_depth = 0
    /\ direction = "both"
    /\ bpc = "parked"
    /\ visited = {}
    /\ queue = <<>>
    /\ graph = <<>>
    /\ kyc_touchpoints = <<>>
    /\ result = None
    /\ enqueued = <<>>
    /\ analysed = <<>>

\* a JSON document: a list, or a dict
List(items) == [type |-> "list", value |-> items]
Dict(map) == [type |-> "dict", value |-> map]
EmptyDict == Dict([k \in {} |-> 0])

\* Python's truth value of a list or a dict: false when empty
Truthy(doc) == IF doc.type = "list" THEN Len(doc.value) > 0 ELSE DOMAIN doc.value # {}

\* a file on disk: absent, holding a complete JSON document, or cut short
\* (opened for writing and truncated, the document not yet written)
Absent == [kind |-> "absent", data |-> EmptyDict]
Partial == [kind |-> "partial", data |-> EmptyDict]
Json(doc) == [kind |-> "json", data |-> doc]

NoCheck == [prev |-> <<>>, balances |-> <<>>, tx_counts |-> <<>>,
            balances_ok |-> TRUE, tx_counts_ok |-> TRUE]

Threads == {"t1", "t2"}

HopParked ==
    /\ chain = <<>>
    /\ start_address = "a"
    /\ hop_depth = 0
    /\ min_eth = 0
    /\ hop_queue = <<>>
    /\ hop_visited = {}
    /\ hops = <<>>
    /\ endpoints = <<>>
    /\ hpc = "parked"

DepthParked ==
    /\ flows = <<>>
    /\ trace_start = "a"
    /\ trace_max_depth = 0
    /\ trace_traced = {}
    /\ trace_results = <<>>
    /\ trace_stack = <<>>
    /\ trace_failed = 0
    /\ tpc = "parked"

BatchParked ==
    /\ batch_addresses = <<>>
    /\ max_workers = 0
    /\ futures = <<>>
    /\ collected = {}
    /\ results = <<>>
    /\ bapc = "parked"
    /\ traced = <<>>

LimiterParked ==
    /\ time = 0
    /\ tokens = 0
    /\ last_update = 0
    /\ lock = "parked"
    /\ wake = [t \in Threads |-> -1]
    /\ grants = <<>>

DaemonParked ==
    /\ dpc = "parked"
    /\ running = TRUE
    /\ dstate = EmptyDict
    /\ stateFile = Absent
    /\ alertsFile = Absent
    /\ alerts = <<>>
    /\ check_count = 0
    /\ clock = 0
    /\ lastCheck = NoCheck
    /\ cycleError = None
    /\ ioFailures = 0
    /\ crashes = 0
    /\ persisted = stateFile
    /\ appended = <<>>
    /\ emitted = <<>>

ClassifyParked ==
    /\ cAddress = "a"
    /\ cTxs = <<>>
    /\ cResult = <<FALSE, None>>
    /\ cpc = "parked"
    /\ cTable = KNOWN_EXCHANGE_HOT_WALLETS
    /\ cReturned = <<>>

InitClassify ==
    /\ cAddress \in ClassifyAddresses
    /\ cTxs \in SeqsUpTo(TxInvolving(Lower(cAddress)), MaxTxs)
                 \cup LongHistories(Lower(cAddress))
    /\ cResult = <<FALSE, None>>
    /\ cpc = "call"
    /\ cTable = KNOWN_EXCHANGE_HOT_WALLETS
    /\ cReturned = <<>>
    /\ BfsParked
    /\ DaemonParked
    /\ LimiterParked
    /\ BatchParked
    /\ HopParked
    /\ DepthParked

\* how many times the caller calls the function on the same arguments
MaxCalls == 2

\* faulty variant: the function consumes its list argument (txs.pop() until empty)
ClassifyEffectsConsuming(table, txs) == [table |-> table, txs |-> <<>>]

\* what a call leaves in the table and in the caller's list: the function
\* rebinds only locals (address, inflows, outflows, destinations) and reads
\* the table with "in" and [], so both are what they were
ClassifyEffects(table, txs) == [table |-> table, txs |-> txs]

\* one call is_exchange_deposit_pattern(cAddress, cTxs)
Classify ==
    /\ cpc \in {"call", "returned"}
    /\ Len(cReturned) < MaxCalls
    /\ cTable = KNOWN_EXCHANGE_HOT_WALLETS
    /\ cResult' = is_exchange_deposit_pattern(cAddress, cTxs)
    /\ cReturned' = Append(cReturned, cResult')
    /\ cTable' = ClassifyEffects(cTable, cTxs).table
    /\ cTxs' = ClassifyEffects(cTable, cTxs).txs
    /\ cpc' = "returned"
    /\ UNCHANGED cAddress
    /\ UNCHANGED notClassifyVars

NextClassify == Classify

SpecClassify == InitClassify /\ [][NextClassify]_vars

(***************************************************************************)
(* etherscan_request, get_transactions, analyze_address                    *)
(***************************************************************************)
\* faulty variant: no try/except around the request, a failure leaves as an exception
etherscan_request_unguarded(failed, upstream) ==
    [raised |-> failed, result |-> upstream]

\* The request either succeeds with the upstream's list, or fails (an
\* exception inside the try, or a status other than "1"): then it returns [].
\* It never lets an exception out.
etherscan_request(failed, upstream) ==
    [raised |-> FALSE, result |-> IF failed THEN <<>> ELSE upstream]

\* txlist (normal) or tokentx (erc20) of an address
get_transactions(address, tx_type, fails) ==
    etherscan_request(tx_type \in fails,
                      SelectSeq(ledger[tx_type],
                                LAMBDA tx : tx.from = address \/ tx.to = address))

ValueIn(txs, address) ==
    SumSeq([i \in 1..Len(txs) |->
              IF Lower(txs[i].to) = address THEN txs[i].value ELSE 0])

ValueOut(txs, address) ==
    SumSeq([i \in 1..Len(txs) |->
              IF Lower(txs[i].from) = address THEN txs[i].value ELSE 0])

\* connected_in / connected_out are Python sets; their list() order is free.
\* An exception of a request would pass through (there is no try here).
analyze_address(address0, fails) ==
    LET address == Lower(address0)
        normal == get_transactions(address, "normal", fails)
        erc20 == get_transactions(address, "erc20", fails)
    IN IF normal.raised \/ erc20.raised THEN [raised |-> TRUE, analysis |-> None]
       ELSE
       LET normal_txs == normal.result
           erc20_txs == erc20.result
           all_txs == normal_txs \o erc20_txs
           verdict == is_exchange_deposit_pattern(address, all_txs)
       IN [raised |-> FALSE, analysis |->
          [address |-> address,
           is_exchange_deposit |-> verdict[1],
           exchange_name |-> verdict[2],
           tx_count |-> Len(normal_txs) + Len(erc20_txs),
           eth_in |-> ValueIn(normal_txs, address),
           eth_out |-> ValueOut(normal_txs, address),
           usdt_in |-> ValueIn(erc20_txs, address),
           usdt_out |-> ValueOut(erc20_txs, address),
           connected_in |-> {Lower(all_txs[i].from) : i \in 1..Len(all_txs)} \ {address},
           connected_out |-> {Lower(all_txs[i].to) : i \in 1..Len(all_txs)} \ {address}]]

(***************************************************************************)
(* bfs_expand(seed_addresses, max_depth, direction)                        *)
(***************************************************************************)
MaxLedger == 2
MaxErc20 == 0
MaxSeeds == 2
MaxDepth == 2
MaxFetchFailures == 1

BfsAddr == {"a", "b", "c", "x"}
RawSeeds == {"a", "A", "b", "x"}
Directions == {"in", "out", "both"}
LedgerTx == TxRecord(BfsAddr, BfsAddr, {1})

\* the normal and the token transfers on the ledger
Ledgers == [normal : SeqsUpTo(LedgerTx, MaxLedger), erc20 : SeqsUpTo(LedgerTx, MaxErc20)]

InitBfs ==
    /\ ledger \in Ledgers
    /\ seed_addresses \in SeqsUpTo(RawSeeds, MaxSeeds) \ {<<>>}
    /\ max_depth \in 0..MaxDepth
    /\ direction \in Directions
    /\ bpc = "start"
    /\ visited = {}
    /\ queue = <<>>
    /\ graph = <<>>
    /\ kyc_touchpoints = <<>>
    /\ result = None
    /\ enqueued = <<>>
    /\ analysed = <<>>
    /\ ClassifyParked
    /\ DaemonParked
    /\ LimiterParked
    /\ BatchParked
    /\ HopParked
    /\ DepthParked

\* faulty variant: only the first seed is put on the queue
SeedQueueFirstOnly(seeds) == <<<<Lower(seeds[1]), 0>>>>

\* for addr in seed_addresses: queue.append((addr.lower(), 0)); visited.add(...)
SeedQueue(seeds) == [i \in 1..Len(seeds) |-> <<Lower(seeds[i]), 0>>]

BfsStart ==
    /\ bpc = "start"
    /\ queue' = SeedQueue(seed_addresses)
    /\ visited' = {Lower(seed_addresses[i]) : i \in 1..Len(seed_addresses)}
    /\ enqueued' = [i \in 1..Len(seed_addresses) |->
                      [address |-> Lower(seed_addresses[i]), depth |-> 0,
                       parent |-> None, parent_is_deposit |-> FALSE]]
    /\ bpc' = "loop"
    /\ UNCHANGED <<ledger, seed_addresses, max_depth, direction, graph,
                   kyc_touchpoints, result, analysed>>
    /\ UNCHANGED notBfsVars

\* faulty variant: the head is read and never removed
PopleftPeek(q) == q

\* queue.popleft(): what is left of the queue
Popleft(q) == Tail(q)

\* the KYC touchpoint recorded for a deposit address
DepositTouchpoint(address, depth, analysis) ==
    [address |-> address,
     exchange |-> analysis.exchange_name,
     depth |-> depth,
     usdt_flow |-> analysis.usdt_in + analysis.usdt_out,
     eth_flow |-> analysis.eth_in + analysis.eth_out]

\* the touchpoint recorded for a peer that is a known hot wallet
DirectTouchpoint(address, depth, next_addr) ==
    [address |-> address,
     exchange |-> KNOWN_EXCHANGE_HOT_WALLETS[next_addr],
     depth |-> depth,
     via |-> next_addr,
     flow_direction |-> "direct"]

\* next_addrs: connected_in and/or connected_out, in some list order
NextAddrs(analysis, dir) ==
    {ins \o outs :
        ins \in (IF dir \in {"in", "both"} THEN Orderings(analysis.connected_in) ELSE {<<>>}),
        outs \in (IF dir \in {"out", "both"} THEN Orderings(analysis.connected_out) ELSE {<<>>})}

\* queue.append((next_addr, depth)) in place of depth + 1
NextDepthOfParent(depth) == depth

\* depth + 1 in queue.append((next_addr, depth + 1))
NextDepth(depth) == depth + 1

\* for next_addr in next_addrs: ... ; st = [visited, queue, kyc, enq]
RECURSIVE ExpandLoop(_, _, _, _, _)
ExpandLoop(next_addrs, address, depth, is_deposit, st) ==
    IF next_addrs = <<>> THEN st
    ELSE LET next_addr == Head(next_addrs)
             rest == Tail(next_addrs)
         IN IF next_addr \in st.visited
            THEN ExpandLoop(rest, address, depth, is_deposit, st)
            ELSE IF next_addr \in Known
            THEN ExpandLoop(rest, address, depth, is_deposit,
                            [st EXCEPT !.kyc = Append(@, DirectTouchpoint(address, depth, next_addr))])
            ELSE ExpandLoop(rest, address, depth, is_deposit,
                            [st EXCEPT !.visited = @ \cup {next_addr},
                                       !.queue = Append(@, <<next_addr, NextDepth(depth)>>),
                                       !.enq = Append(@, [address |-> next_addr,
                                                          depth |-> NextDepth(depth),
                                                          parent |-> address,
                                                          parent_is_deposit |-> is_deposit])])

\* faulty variant: an address without transfers is left out of the graph
SetItemUnlessDeadEnd(g, k, v) ==
    IF v.analysis.tx_count = 0 THEN g
    ELSE [x \in DOMAIN g \cup {k} |-> IF x = k THEN v ELSE g[x]]

\* graph[address] = {...}
SetItem(g, k, v) == [x \in DOMAIN g \cup {k} |-> IF x = k THEN v ELSE g[x]]

FailuresSoFar == Cardinality({i \in 1..Len(analysed) : analysed[i].failed # {}})

\* one iteration of "while queue:"
BfsStep ==
    /\ bpc = "loop"
    /\ queue # <<>>
    /\ \E fails \in SUBSET {"normal", "erc20"} :
         /\ fails # {} => FailuresSoFar < MaxFetchFailures
         /\ \E address \in {Head(queue)[1]}, depth \in {Head(queue)[2]} :
            \E call \in {analyze_address(address, fails)} :
            \E analysis \in {call.analysis} :
              /\ analysed' = Append(analysed, [address |-> address, depth |-> depth,
                                               failed |-> fails])
              /\ IF call.raised
                 THEN \* the exception leaves bfs_expand
                      /\ bpc' = "raised"
                      /\ queue' = Popleft(queue)
                      /\ UNCHANGED <<visited, graph, kyc_touchpoints, enqueued>>
                 ELSE
                 /\ graph' = SetItem(graph, address, [depth |-> depth, analysis |-> analysis])
                 /\ bpc' = "loop"
                 /\ \E kyc1 \in {IF analysis.is_exchange_deposit
                                 THEN Append(kyc_touchpoints,
                                             DepositTouchpoint(address, depth, analysis))
                                 ELSE kyc_touchpoints} :
                      IF depth >= max_depth
                      THEN /\ queue' = Popleft(queue)
                           /\ kyc_touchpoints' = kyc1
                           /\ UNCHANGED <<visited, enqueued>>
                      ELSE \E next_addrs \in NextAddrs(analysis, direction) :
                           \E st \in {ExpandLoop(next_addrs, address, depth,
                                                 analysis.is_exchange_deposit,
                                                 [visited |-> visited, queue |-> Popleft(queue),
                                                  kyc |-> kyc1, enq |-> enqueued])} :
                              /\ visited' = st.visited
                              /\ queue' = st.queue
                              /\ kyc_touchpoints' = st.kyc
                              /\ enqueued' = st.enq
    /\ UNCHANGED <<ledger, seed_addresses, max_depth, direction, result>>
    /\ UNCHANGED notBfsVars

\* the queue is empty: return {...}
BfsReturn ==
    /\ bpc = "loop"
    /\ queue = <<>>
    /\ bpc' = "done"
    /\ result' = [seed_addresses |-> seed_addresses,
                  max_depth |-> max_depth,
                  direction |-> direction,
                  total_addresses_discovered |-> Cardinality(visited),
                  kyc_touchpoints |-> kyc_touchpoints,
                  graph |-> graph]
    /\ UNCHANGED <<ledger, seed_addresses, max_depth, direction, visited, queue,
                   graph, kyc_touchpoints, enqueued, analysed>>
    /\ UNCHANGED notBfsVars

NextBfs == BfsStart \/ BfsStep \/ BfsReturn

SpecBfs == InitBfs /\ [][NextBfs]_vars

\* every fetch returns, and the loop keeps running while it can
FairSpecBfs == SpecBfs /\ WF_vars(NextBfs)

(***************************************************************************)
(* address_monitor_daemon.py                                               *)
(* Balances are counted in units of 0.01 ETH.                              *)
(***************************************************************************)
MIN_BALANCE_CHANGE == 1
HIGH_BALANCE_CHANGE == 1000
HIGH_TX_CHANGE == 5
\* the cap of the alert log (500 in the source, scaled down so that the log
\* fills within MaxCycles)
MAX_ALERTS == 3

MaxCycles == 2
MaxCrashes == 1
MaxWriteFailures == 1

\* list(watchlist.keys()), the keys already lower-case
Watchlist == <<"w1", "w2">>
Watched == Range(Watchlist)
BalanceValues == {1, 1000, 1002}
TxCountValues == {0, 1}

Abs(n) == IF n < 0 THEN -n ELSE n

\* d.get(key, default)
Get(d, key, default) == IF key \in DOMAIN d THEN d[key] ELSE default

\* seq[-n:]
\* existing[:MAX_ALERTS] in place of existing[-MAX_ALERTS:]
FirstN(seq, n) == IF Len(seq) <= n THEN seq ELSE SubSeq(seq, 1, n)

LastN(seq, n) == IF Len(seq) <= n THEN seq ELSE SubSeq(seq, Len(seq) - n + 1, Len(seq))

\* load_json(path, default): the parsed file if it exists and parses,
\* otherwise "default or {}"
load_json(file, default) ==
    IF file.kind = "json" THEN file.data
    ELSE IF Truthy(default) THEN default ELSE EmptyDict

\* batch_rpc_call + get_balances / get_tx_counts: the address -> value dict;
\* a failed batch gives [] and the zip an empty dict
BatchResult(ok, values) == IF ok THEN values ELSE [k \in {} |-> 0]

NoSnapshot == [k \in {} |-> 0]

\* the alert of one address, or <<>> when nothing changed enough
AlertOf(addr, now, current_balance, current_tx, prev_balance, prev_tx) ==
    LET balance_change == current_balance - prev_balance
        tx_change == current_tx - prev_tx
    IN IF Abs(balance_change) > MIN_BALANCE_CHANGE \/ tx_change > 0
       THEN <<[timestamp |-> now,
               address |-> addr,
               balance_change_eth |-> balance_change,
               new_transactions |-> tx_change,
               current_balance |-> current_balance,
               severity |-> IF Abs(balance_change) > HIGH_BALANCE_CHANGE
                               \/ tx_change > HIGH_TX_CHANGE
                            THEN "high" ELSE "medium"]>>
       ELSE <<>>

\* the loop "for addr in addresses" of check_addresses;
\* acc = [addresses (the state's snapshots), alerts]
RECURSIVE CheckLoop(_, _, _, _, _)
CheckLoop(addresses, now, balances, tx_counts, acc) ==
    IF addresses = <<>> THEN acc
    ELSE LET addr == Head(addresses)
             current_balance == Get(balances, addr, 0)
             current_tx == Get(tx_counts, addr, 0)
             prev == Get(acc.addresses, addr, NoSnapshot)
             prev_balance == Get(prev, "balance", 0)
             prev_tx == Get(prev, "tx_count", 0)
         IN CheckLoop(Tail(addresses), now, balances, tx_counts,
                [addresses |-> [a \in DOMAIN acc.addresses \cup {addr} |->
                                   IF a = addr
                                   THEN [balance |-> current_balance,
                                         tx_count |-> current_tx,
                                         last_check |-> now]
                                   ELSE acc.addresses[a]],
                 alerts |-> acc.alerts \o AlertOf(addr, now, current_balance, current_tx,
                                                   prev_balance, prev_tx)])

\* check_addresses(watchlist, state): the new state and the alerts
check_addresses(state, now, balances, tx_counts) ==
    LET done == CheckLoop(Watchlist, now, balances, tx_counts,
                          [addresses |-> Get(state.value, "addresses", NoSnapshot),
                           alerts |-> <<>>])
    IN [state |-> Dict([addresses |-> done.addresses, last_check |-> now]),
        alerts |-> done.alerts]

StateDefault == Dict([addresses |-> NoSnapshot])

\* a state file left by an earlier run of the daemon
EarlierSnapshot ==
    Dict([addresses |-> [a \in Watched |-> [balance |-> 1000, tx_count |-> 0,
                                            last_check |-> 0]],
          last_check |-> 0])

InitDaemon ==
    /\ dpc = "start"
    /\ running = TRUE
    /\ dstate = EmptyDict
    /\ stateFile \in {Absent, Json(EarlierSnapshot)}
    /\ alertsFile \in {Absent, Json(List(<<>>))}
    /\ alerts = <<>>
    /\ check_count = 0
    /\ clock = 0
    /\ lastCheck = NoCheck
    /\ cycleError = None
    /\ ioFailures = 0
    /\ crashes = 0
    /\ persisted = stateFile
    /\ appended = <<>>
    /\ emitted = <<>>
    /\ ClassifyParked
    /\ BfsParked
    /\ LimiterParked
    /\ BatchParked
    /\ HopParked
    /\ DepthParked

\* main() up to the loop: state = load_json(STATE_FILE, {"addresses": {}})
Startup ==
    /\ dpc = "start"
    /\ dstate' = load_json(stateFile, StateDefault)
    /\ dpc' = "loop_top"
    /\ UNCHANGED <<running, stateFile, alertsFile, alerts, check_count, clock,
                   lastCheck, cycleError, ioFailures, crashes,
                   persisted, appended, emitted>>
    /\ UNCHANGED notDaemonVars

\* "while True:" in place of "while running:"
LoopTopForever ==
    /\ dpc = "loop_top"
    /\ dpc' = "check"
    /\ cycleError' = None
    /\ UNCHANGED <<running, dstate, stateFile, alertsFile, alerts, check_count, clock,
                   lastCheck, ioFailures, crashes,
                   persisted, appended, emitted>>
    /\ UNCHANGED notDaemonVars

\* while running: ... ; else log "Daemon stopped", return 0
LoopTop ==
    /\ dpc = "loop_top"
    /\ dpc' = IF running THEN "check" ELSE "stopped"
    /\ cycleError' = None
    /\ UNCHANGED <<running, dstate, stateFile, alertsFile, alerts, check_count, clock,
                   lastCheck, ioFailures, crashes,
                   persisted, appended, emitted>>
    /\ UNCHANGED notDaemonVars

\* alerts = check_addresses(watchlist, state)
CheckAddresses ==
    /\ dpc = "check"
    /\ clock < MaxCycles
    /\ \E balances_ok, tx_counts_ok \in BOOLEAN,
          chain_balances \in [Watched -> BalanceValues],
          chain_tx_counts \in [Watched -> TxCountValues] :
          \E balances \in {BatchResult(balances_ok, chain_balances)},
             tx_counts \in {BatchResult(tx_counts_ok, chain_tx_counts)} :
          \E checked \in {check_addresses(dstate, clock + 1, balances, tx_counts)} :
             /\ dstate' = checked.state
             /\ alerts' = checked.alerts
             /\ emitted' = emitted \o checked.alerts
             /\ lastCheck' = [prev |-> Get(dstate.value, "addresses", NoSnapshot),
                              balances |-> balances, tx_counts |-> tx_counts,
                              balances_ok |-> balances_ok, tx_counts_ok |-> tx_counts_ok]
    /\ clock' = clock + 1
    /\ dpc' = "save_state"
    /\ UNCHANGED <<running, stateFile, alertsFile, check_count, cycleError, ioFailures,
                   crashes,
                   persisted, appended>>
    /\ UNCHANGED notDaemonVars

\* save_json(STATE_FILE, state), first half: write_text opens the file for
\* writing, which truncates it
SaveStateOpen ==
    /\ dpc = "save_state"
    /\ stateFile' = Partial
    /\ dpc' = "state_open"
    /\ UNCHANGED <<running, dstate, alertsFile, alerts, check_count, clock, lastCheck,
                   cycleError, ioFailures, crashes,
                   persisted, appended, emitted>>
    /\ UNCHANGED notDaemonVars

\* save_json(STATE_FILE, state), second half: the document is written
SaveStateWrite ==
    /\ dpc = "state_open"
    /\ stateFile' = Json(dstate)
    /\ persisted' = Json(dstate)
    /\ dpc' = "append"
    /\ UNCHANGED <<running, dstate, alertsFile, alerts, check_count, clock, lastCheck,
                   cycleError, ioFailures, crashes, appended, emitted>>
    /\ UNCHANGED notDaemonVars

\* the open of a save_json raises (OSError): main's except logs it
WriteFails ==
    /\ dpc \in {"save_state", "append"}
    /\ dpc = "append" => alerts # <<>> /\ load_json(alertsFile, List(<<>>)).type = "list"
    /\ ioFailures < MaxWriteFailures
    /\ ioFailures' = ioFailures + 1
    /\ cycleError' = "OSError"
    /\ dpc' = "error_sleep"
    /\ UNCHANGED <<running, dstate, stateFile, alertsFile, alerts, check_count, clock,
                   lastCheck, crashes,
                   persisted, appended, emitted>>
    /\ UNCHANGED notDaemonVars

\* "if alerts:" is false: check_count += 1, then sleep
NoAlerts ==
    /\ dpc = "append"
    /\ alerts = <<>>
    /\ check_count' = check_count + 1
    /\ dpc' = "sleep"
    /\ UNCHANGED <<running, dstate, stateFile, alertsFile, alerts, clock, lastCheck,
                   cycleError, ioFailures, crashes,
                   persisted, appended, emitted>>
    /\ UNCHANGED notDaemonVars

\* append_alerts(alerts): existing = load_json(ALERTS_FILE, []);
\* existing.extend(new_alerts) raises AttributeError on a dict; otherwise
\* save_json opens (truncates) ALERTS_FILE
AppendAlertsOpen ==
    /\ dpc = "append"
    /\ alerts # <<>>
    /\ \E existing \in {load_json(alertsFile, List(<<>>))} :
         IF existing.type = "list"
         THEN /\ alertsFile' = [kind |-> "partial",
                                data |-> List(LastN(existing.value \o alerts, MAX_ALERTS))]
              /\ dpc' = "alerts_open"
              /\ UNCHANGED cycleError
         ELSE /\ cycleError' = "AttributeError"
              /\ dpc' = "error_sleep"
              /\ UNCHANGED alertsFile
    /\ UNCHANGED <<running, dstate, stateFile, alerts, check_count, clock, lastCheck,
                   ioFailures, crashes,
                   persisted, appended, emitted>>
    /\ UNCHANGED notDaemonVars

\* save_json(ALERTS_FILE, ...), second half; then check_count += 1 and sleep
AppendAlertsWrite ==
    /\ dpc = "alerts_open"
    /\ alertsFile' = Json(alertsFile.data)
    /\ appended' = appended \o alerts
    /\ check_count' = check_count + 1
    /\ dpc' = "sleep"
    /\ UNCHANGED <<running, dstate, stateFile, alerts, clock, lastCheck, cycleError,
                   ioFailures, crashes,
                   persisted, emitted>>
    /\ UNCHANGED notDaemonVars

\* time.sleep(CHECK_INTERVAL), or time.sleep(10) in the except branch
Sleep ==
    /\ dpc \in {"sleep", "error_sleep"}
    /\ dpc' = "loop_top"
    /\ UNCHANGED <<running, dstate, stateFile, alertsFile, alerts, check_count, clock,
                   lastCheck, cycleError, ioFailures, crashes,
                   persisted, appended, emitted>>
    /\ UNCHANGED notDaemonVars

DaemonActive == dpc \notin {"parked", "stopped", "crashed"}

\* signal_handler: SIGTERM / SIGINT clears the flag
Signal ==
    /\ DaemonActive
    /\ running
    /\ running' = FALSE
    /\ UNCHANGED <<dpc, dstate, stateFile, alertsFile, alerts, check_count, clock,
                   lastCheck, cycleError, ioFailures, crashes,
                   persisted, appended, emitted>>
    /\ UNCHANGED notDaemonVars

\* the process is killed (SIGKILL, power loss): only the files remain
Crash ==
    /\ DaemonActive
    /\ crashes < MaxCrashes
    /\ crashes' = crashes + 1
    /\ dpc' = "crashed"
    /\ alertsFile' = IF alertsFile.kind = "partial" THEN Partial ELSE alertsFile
    /\ UNCHANGED <<running, dstate, stateFile, alerts, check_count, clock, lastCheck,
                   cycleError, ioFailures, persisted, appended, emitted>>
    /\ UNCHANGED notDaemonVars

\* the daemon is started again
Restart ==
    /\ dpc = "crashed"
    /\ dpc' = "start"
    /\ running' = TRUE
    /\ dstate' = EmptyDict
    /\ alerts' = <<>>
    /\ check_count' = 0
    /\ cycleError' = None
    /\ UNCHANGED <<stateFile, alertsFile, clock, lastCheck, ioFailures, crashes,
                   persisted, appended, emitted>>
    /\ UNCHANGED notDaemonVars

NextDaemon ==
    \/ Startup \/ LoopTop \/ CheckAddresses \/ SaveStateOpen \/ SaveStateWrite
    \/ WriteFails \/ NoAlerts \/ AppendAlertsOpen \/ AppendAlertsWrite \/ Sleep
    \/ Signal \/ Crash \/ Restart

SpecDaemon == InitDaemon /\ [][NextDaemon]_vars

(***************************************************************************)
(* RateLimiter: one instance (_limiter) shared by every caller of          *)
(* etherscan_request.  Time is counted in ticks of 1/RATE_LIMIT second,    *)
(* the time in which one token is refilled.                                *)
(***************************************************************************)
RATE_LIMIT == 5

MaxTime == 6
MaxGrants == 10

TicksPerSecond == RATE_LIMIT

Min(a, b) == IF a < b THEN a ELSE b

\* RateLimiter.__init__
InitLimiter ==
    /\ time = 0
    /\ tokens = RATE_LIMIT
    /\ last_update = 0
    /\ lock = None
    /\ wake = [t \in Threads |-> -1]
    /\ grants = <<>>
    /\ ClassifyParked
    /\ BfsParked
    /\ DaemonParked
    /\ BatchParked
    /\ HopParked
    /\ DepthParked

\* self.tokens = min(self.rate, self.tokens + elapsed * self.rate):
\* elapsed ticks * (1 / RATE_LIMIT) seconds * RATE_LIMIT tokens per second
Refill(tok, elapsed) == Min(RATE_LIMIT, tok + elapsed)

\* wait_time = (1 - self.tokens) / self.rate, in ticks
WaitTime(tok) == 1 - tok

\* acquire() up to the branch: takes the lock, refills, and either takes a
\* token and returns, or starts to sleep with the lock held
Acquire(t) ==
    /\ lock = None
    /\ Len(grants) < MaxGrants
    /\ last_update' = time
    /\ \E refilled \in {Refill(tokens, time - last_update)} :
         IF refilled < 1
         THEN /\ tokens' = refilled
              /\ lock' = t
              /\ wake' = [wake EXCEPT ![t] = time + WaitTime(refilled)]
              /\ UNCHANGED grants
         ELSE /\ tokens' = refilled - 1
              /\ grants' = Append(grants, time)
              /\ UNCHANGED <<lock, wake>>
    /\ UNCHANGED time
    /\ UNCHANGED notLimiterVars

\* time.sleep(wait_time) is over: self.tokens = 0, the lock is released and
\* acquire() returns
Wake(t) ==
    /\ lock = t
    /\ time >= wake[t]
    /\ tokens' = 0
    /\ lock' = None
    /\ wake' = [wake EXCEPT ![t] = -1]
    /\ grants' = Append(grants, time)
    /\ UNCHANGED <<time, last_update>>
    /\ UNCHANGED notLimiterVars

\* time passes
Tick ==
    /\ time < MaxTime
    /\ time' = time + 1
    /\ UNCHANGED <<tokens, last_update, lock, wake, grants>>
    /\ UNCHANGED notLimiterVars

NextLimiter == (\E t \in Threads : Acquire(t)) \/ (\E t \in Threads : Wake(t)) \/ Tick

SpecLimiter == InitLimiter /\ [][NextLimiter]_vars

(***************************************************************************)
(* batch_trace(addresses, max_workers) of haiku_tracer.py: one             *)
(* trace_address call per submission, run by a pool of max_workers         *)
(* threads, the outcomes collected as the futures complete.                *)
(***************************************************************************)
MaxBatch == 3
MaxWorkers == 2

BatchAddr == {"a", "A", "b"}

\* trace_address(address): the trace of the lower-cased address (its stats and
\* transfer lists are left out), or an exception when the upstream response
\* is malformed
trace_address(address0, malformed) ==
    [raised |-> malformed, value |-> [address |-> Lower(address0), depth |-> 0]]

ErrorSlot == [error |-> "exception"]

\* try: results[addr] = future.result() except Exception as e:
\*     results[addr] = {"error": str(e)}
\* without the try
FutureResultUncaught(outcome) == [raised |-> outcome.raised, slot |-> outcome.value]

FutureResult(outcome) ==
    [raised |-> FALSE, slot |-> IF outcome.raised THEN ErrorSlot ELSE outcome.value]

NotSubmitted == [state |-> "none", outcome |-> trace_address("a", FALSE)]

InitBatch ==
    /\ batch_addresses \in SeqsUpTo(BatchAddr, MaxBatch)
    /\ max_workers \in 1..MaxWorkers
    /\ futures = <<>>
    /\ collected = {}
    /\ results = <<>>
    /\ bapc = "submit"
    /\ traced = <<>>
    /\ ClassifyParked
    /\ BfsParked
    /\ DaemonParked
    /\ LimiterParked
    /\ HopParked
    /\ DepthParked

\* future_to_addr = {executor.submit(trace_address, addr): addr for addr in addresses}
Submit ==
    /\ bapc = "submit"
    /\ futures' = [i \in 1..Len(batch_addresses) |->
                      [NotSubmitted EXCEPT !.state = "pending"]]
    /\ bapc' = "collect"
    /\ UNCHANGED <<batch_addresses, max_workers, collected, results, traced>>
    /\ UNCHANGED notBatchVars

Running == {i \in 1..Len(futures) : futures[i].state = "running"}
Pending == {i \in 1..Len(futures) : futures[i].state = "pending"}

\* an idle worker thread takes the oldest pending submission and calls
\* trace_address
WorkerStart(i) ==
    /\ i \in Pending
    /\ \A j \in Pending : i <= j
    /\ Cardinality(Running) < max_workers
    /\ futures' = [futures EXCEPT ![i].state = "running"]
    /\ traced' = Append(traced, batch_addresses[i])
    /\ UNCHANGED <<batch_addresses, max_workers, collected, results, bapc>>
    /\ UNCHANGED notBatchVars

\* the call returns or raises
WorkerDone(i) ==
    /\ i \in Running
    /\ \E malformed \in BOOLEAN :
          futures' = [futures EXCEPT ![i] =
                         [state |-> "done",
                          outcome |-> trace_address(batch_addresses[i], malformed)]]
    /\ UNCHANGED <<batch_addresses, max_workers, collected, results, bapc, traced>>
    /\ UNCHANGED notBatchVars

\* one round of "for future in as_completed(future_to_addr)"
Collect(i) ==
    /\ bapc = "collect"
    /\ i \in 1..Len(futures)
    /\ futures[i].state = "done"
    /\ i \notin collected
    /\ collected' = collected \cup {i}
    /\ \E got \in {FutureResult(futures[i].outcome)} :
          IF got.raised
          THEN /\ bapc' = "raised"
               /\ UNCHANGED results
          ELSE /\ results' = SetItem(results, batch_addresses[i], got.slot)
               /\ UNCHANGED bapc
    /\ UNCHANGED <<batch_addresses, max_workers, futures, traced>>
    /\ UNCHANGED notBatchVars

\* return results
BatchReturn ==
    /\ bapc = "collect"
    /\ collected = 1..Len(futures)
    /\ bapc' = "returned"
    /\ UNCHANGED <<batch_addresses, max_workers, futures, collected, results, traced>>
    /\ UNCHANGED notBatchVars

NextBatch ==
    \/ Submit
    \/ \E i \in 1..MaxBatch : WorkerStart(i)
    \/ \E i \in 1..MaxBatch : WorkerDone(i)
    \/ \E i \in 1..MaxBatch : Collect(i)
    \/ BatchReturn

SpecBatch == InitBatch /\ [][NextBatch]_vars

(***************************************************************************)
(* trace_hops(start_address, depth, min_eth) of tools/multi_hop_tracer.py. *)
(* The totals of the graph are left out; an RPC call that fails gives the  *)
(* same empty transfer list as an address without outgoing transfers.      *)
(***************************************************************************)
MaxChain == 3
MaxHopDepth == 2
MaxMinEth == 2

HopAddr == {"a", "b", "c"}
HopStarts == {"a", "A"}

\* KNOWN_ADDRESSES, cut down to an exchange, a mixer and a router
KNOWN_ADDRESSES ==
    [w \in {"x", "t", "u"} |->
        CASE w = "x" -> "Binance"
          [] w = "t" -> "Tornado Cash"
          [] OTHER -> "Uniswap V2 Router"]

\* get_label(address)
get_label(address) ==
    IF Lower(address) \in DOMAIN KNOWN_ADDRESSES THEN KNOWN_ADDRESSES[Lower(address)]
    ELSE None

\* the branch taken for a label: 'Tornado' in label, an exchange name in
\* label, or another known address
LabelType(label) ==
    CASE label = "Tornado Cash" -> "mixer"
      [] label = "Binance" -> "exchange"
      [] OTHER -> "other"

ChainTx == [from : HopAddr, to : HopAddr \cup DOMAIN KNOWN_ADDRESSES, value_eth : 1..MaxMinEth]

\* get_outgoing_transfers(address): the traces from the address with a value
\* and a destination, each with the label of its destination
get_outgoing_transfers(address0) ==
    LET address == Lower(address0)
        sent == SelectSeq(chain, LAMBDA tx : tx.from = address /\ tx.value_eth > 0)
    IN [i \in 1..Len(sent) |-> [to |-> Lower(sent[i].to),
                                value_eth |-> sent[i].value_eth,
                                label |-> get_label(sent[i].to)]]

InitHops ==
    /\ chain \in SeqsUpTo(ChainTx, MaxChain)
    /\ start_address \in HopStarts
    /\ hop_depth \in 0..MaxHopDepth
    /\ min_eth \in 1..MaxMinEth
    /\ hop_queue = <<[address |-> Lower(start_address), current_depth |-> 0,
                      path |-> <<Lower(start_address)>>]>>
    /\ hop_visited = {}
    /\ hops = <<>>
    /\ endpoints = <<>>
    /\ hpc = "loop"
    /\ ClassifyParked
    /\ BfsParked
    /\ DaemonParked
    /\ LimiterParked
    /\ BatchParked
    /\ DepthParked

\* queue.append((to_addr, current_depth), ...) with the depth of the parent
ChildDepthOfParent(current_depth) == current_depth

\* current_depth + 1 in queue.append((to_addr, current_depth + 1, ...))
ChildDepth(current_depth) == current_depth + 1

\* for t in significant: ... ; st = [queue, endpoints]
RECURSIVE TransferLoop(_, _, _, _, _)
TransferLoop(significant, current_depth, path, seen, st) ==
    IF significant = <<>> THEN st
    ELSE LET t == Head(significant)
             rest == Tail(significant)
         IN IF t.label # None
            THEN IF LabelType(t.label) \in {"mixer", "exchange"}
                 THEN TransferLoop(rest, current_depth, path, seen,
                          [st EXCEPT !.endpoints =
                              Append(@, [address |-> t.to, label |-> t.label,
                                         type |-> LabelType(t.label), eth |-> t.value_eth,
                                         from_path |-> Append(path, t.to)])])
                 ELSE TransferLoop(rest, current_depth, path, seen, st)
            ELSE IF t.to \notin seen
                 THEN TransferLoop(rest, current_depth, path, seen,
                          [st EXCEPT !.queue =
                              Append(@, [address |-> t.to,
                                         current_depth |-> ChildDepth(current_depth),
                                         path |-> Append(path, t.to)])])
                 ELSE TransferLoop(rest, current_depth, path, seen, st)

\* the head of the queue was visited before: continue
HopSkip ==
    /\ hpc = "loop"
    /\ hop_queue # <<>>
    /\ Head(hop_queue).address \in hop_visited
    /\ hop_queue' = Tail(hop_queue)
    /\ UNCHANGED <<chain, start_address, hop_depth, min_eth, hop_visited, hops, endpoints, hpc>>
    /\ UNCHANGED notHopVars

\* the head of the queue is at the depth limit: it is marked visited, continue
HopAtLimit ==
    /\ hpc = "loop"
    /\ hop_queue # <<>>
    /\ Head(hop_queue).address \notin hop_visited
    /\ Head(hop_queue).current_depth >= hop_depth
    /\ hop_visited' = hop_visited \cup {Head(hop_queue).address}
    /\ hop_queue' = Tail(hop_queue)
    /\ UNCHANGED <<chain, start_address, hop_depth, min_eth, hops, endpoints, hpc>>
    /\ UNCHANGED notHopVars

\* the head of the queue is traced: its hop is recorded and its transfers
\* are followed
HopTrace ==
    /\ hpc = "loop"
    /\ hop_queue # <<>>
    /\ Head(hop_queue).address \notin hop_visited
    /\ Head(hop_queue).current_depth < hop_depth
    /\ \E head \in {Head(hop_queue)} :
       \E significant \in {SelectSeq(get_outgoing_transfers(head.address),
                                     LAMBDA t : t.value_eth >= min_eth)} :
       \E st \in {TransferLoop(significant, head.current_depth, head.path,
                               hop_visited \cup {head.address},
                               [queue |-> Tail(hop_queue), endpoints |-> endpoints])} :
          /\ hop_visited' = hop_visited \cup {head.address}
          /\ hops' = SetItem(hops, head.address,
                             [depth |-> head.current_depth, path |-> head.path,
                              transfers |-> significant])
          /\ hop_queue' = st.queue
          /\ endpoints' = st.endpoints
    /\ UNCHANGED <<chain, start_address, hop_depth, min_eth, hpc>>
    /\ UNCHANGED notHopVars

\* return graph
HopReturn ==
    /\ hpc = "loop"
    /\ hop_queue = <<>>
    /\ hpc' = "done"
    /\ UNCHANGED <<chain, start_address, hop_depth, min_eth, hop_queue, hop_visited, hops,
                   endpoints>>
    /\ UNCHANGED notHopVars

NextHops == HopSkip \/ HopAtLimit \/ HopTrace \/ HopReturn

SpecHops == InitHops /\ [][NextHops]_vars

(***************************************************************************)
(* trace_address_with_depth(address, max_depth)  (haiku_tracer.py)         *)
(* The recursion is kept as a stack of calls in progress; traced and       *)
(* results are the objects every recursive call shares.  Values are in     *)
(* units of MIN_VALUE_ETH; tokentx returns nothing here.                   *)
(***************************************************************************)
MaxFlows == 3
MaxTraceDepth == 2
MaxTraceFailures == 1

MIN_VALUE_ETH == 1

KNOWN_EXCHANGES == [w \in {"x"} |-> "Binance"]

TraceAddr == {"a", "b", "c"}
TraceStarts == {"a", "A"}
FlowTx == [from : TraceAddr, to : TraceAddr \cup DOMAIN KNOWN_EXCHANGES, value : {0, 1}]

\* get_transactions(address): the txlist of the address, [] when the request fails
txlist(address, failed) ==
    IF failed THEN <<>>
    ELSE SelectSeq(flows, LAMBDA tx : tx.from = address \/ tx.to = address)

\* trace_address: the outflows kept (value >= MIN_VALUE_ETH, from the address)
TraceOutflows(address, normal_txs) ==
    SelectSeq(normal_txs, LAMBDA tx : tx.value >= MIN_VALUE_ETH /\ Lower(tx.from) = address)

\* trace_address: destinations = set of the outflows' "to" outside KNOWN_EXCHANGES
destinations_to_trace(address, normal_txs) ==
    {Lower(tx.to) : tx \in Range(TraceOutflows(address, normal_txs))} \ DOMAIN KNOWN_EXCHANGES

\* result = trace_address(address); result["depth"] = current_depth
TraceRecord(address, current_depth, normal_txs) ==
    [address |-> address,
     depth |-> current_depth,
     classification |-> IF address \in DOMAIN KNOWN_EXCHANGES
                        THEN KNOWN_EXCHANGES[address] ELSE "unknown",
     total_normal_txs |-> Len(normal_txs),
     destinations_to_trace |-> destinations_to_trace(address, normal_txs)]

\* the call in progress: "for dest in result['destinations_to_trace']" runs
\* only when current_depth < max_depth, over the list in the order given
TraceFrame(record, order) ==
    [address |-> record.address,
     current_depth |-> record.depth,
     pending |-> IF record.depth < trace_max_depth THEN order ELSE <<>>]

\* list(destinations): the order of a set's elements is free
TraceOrders(record) ==
    IF record.depth < trace_max_depth THEN Orderings(record.destinations_to_trace)
    ELSE {<<>>}

InitDepth ==
    /\ flows \in SeqsUpTo(FlowTx, MaxFlows)
    /\ trace_start \in TraceStarts
    /\ trace_max_depth \in 0..MaxTraceDepth
    /\ trace_traced = {}
    /\ trace_results = <<>>
    /\ trace_stack = <<>>
    /\ trace_failed = 0
    /\ tpc = "call"
    /\ ClassifyParked
    /\ BfsParked
    /\ DaemonParked
    /\ LimiterParked
    /\ BatchParked
    /\ HopParked

\* the body of one call up to its loop: traced.add, trace_address, append
TraceEnter(address, current_depth, stack) ==
    \E failed \in BOOLEAN :
       /\ failed => trace_failed < MaxTraceFailures
       /\ trace_failed' = trace_failed + (IF failed THEN 1 ELSE 0)
       /\ \E record \in {TraceRecord(address, current_depth, txlist(address, failed))} :
          \E order \in TraceOrders(record) :
             /\ trace_traced' = trace_traced \cup {address}
             /\ trace_results' = Append(trace_results, record)
             /\ trace_stack' = Append(stack, TraceFrame(record, order))

\* the outermost call trace_address_with_depth(address, max_depth)
TraceStart ==
    /\ tpc = "call"
    /\ TraceEnter(Lower(trace_start), 0, trace_stack)
    /\ tpc' = "running"
    /\ UNCHANGED <<flows, trace_start, trace_max_depth>>
    /\ UNCHANGED notDepthVars

TopFrame == trace_stack[Len(trace_stack)]

\* the stack with the first pending destination of its top frame taken off
TraceAdvanced ==
    [trace_stack EXCEPT ![Len(trace_stack)].pending = Tail(@)]

\* "if dest not in traced" is false: the loop goes on to the next destination
TraceSkip ==
    /\ tpc = "running"
    /\ trace_stack # <<>>
    /\ TopFrame.pending # <<>>
    /\ Head(TopFrame.pending) \in trace_traced
    /\ trace_stack' = TraceAdvanced
    /\ UNCHANGED <<flows, trace_start, trace_max_depth, trace_traced, trace_results,
                   trace_failed, tpc>>
    /\ UNCHANGED notDepthVars

\* trace_address_with_depth(dest, max_depth, current_depth + 1, traced, results)
TraceDescend ==
    /\ tpc = "running"
    /\ trace_stack # <<>>
    /\ TopFrame.pending # <<>>
    /\ Head(TopFrame.pending) \notin trace_traced
    /\ TraceEnter(Head(TopFrame.pending), TopFrame.current_depth + 1, TraceAdvanced)
    /\ UNCHANGED <<flows, trace_start, trace_max_depth, tpc>>
    /\ UNCHANGED notDepthVars

\* the loop of the innermost call is over: return results
TraceUnwind ==
    /\ tpc = "running"
    /\ trace_stack # <<>>
    /\ TopFrame.pending = <<>>
    /\ trace_stack' = SubSeq(trace_stack, 1, Len(trace_stack) - 1)
    /\ tpc' = IF Len(trace_stack) = 1 THEN "done" ELSE "running"
    /\ UNCHANGED <<flows, trace_start, trace_max_depth, trace_traced, trace_results,
                   trace_failed>>
    /\ UNCHANGED notDepthVars

NextDepthTrace == TraceStart \/ TraceSkip \/ TraceDescend \/ TraceUnwind

SpecDepth == InitDepth /\ [][NextDepthTrace]_vars

(***************************************************************************)
(* Claims about is_exchange_deposit_pattern (under SpecClassify)           *)
(***************************************************************************)
\* C10: is_exchange_deposit_pattern returns (True, label) for every address
\* of KNOWN_EXCHANGE_HOT_WALLETS, whatever the transfer list, the empty list
\* included.
C10_KnownAddressIsAlwaysEndpoint ==
    (cpc = "returned" /\ Lower(cAddress) \in Known)
        => cResult = <<TRUE, KNOWN_EXCHANGE_HOT_WALLETS[Lower(cAddress)]>>

(***************************************************************************)
(* Claims about bfs_expand (under SpecBfs / FairSpecBfs)                   *)
(***************************************************************************)
\* C2: no address is enqueued from a dequeued address that was classified as
\* an exchange deposit.
C2_NoExpansionFromExchangeDeposit ==
    \A i \in 1..Len(enqueued) :
        enqueued[i].parent # None => ~enqueued[i].parent_is_deposit

\* C3: in one run every address is enqueued at most once and analysed at
\* most once.
C3_EnqueuedAndAnalysedAtMostOnce ==
    /\ \A i, j \in 1..Len(enqueued) :
          enqueued[i].address = enqueued[j].address => i = j
    /\ \A i, j \in 1..Len(analysed) :
          analysed[i].address = analysed[j].address => i = j

\* what is left to do: the queue entries and the addresses not yet visited
BfsVariant ==
    CASE bpc = "start" -> 2 + Len(seed_addresses) + Cardinality(BfsAddr)
      [] bpc = "loop" -> 1 + Len(queue) + Cardinality(BfsAddr \ visited)
      [] OTHER -> 0

\* C4: bfs_expand terminates: until it has returned a next step is always
\* possible (each fetch returns), and every step strictly decreases a natural
\* number, so the queue becomes empty and the function returns.
C4_BfsTerminates ==
    /\ [](bpc = "done" \/ ENABLED NextBfs)
    /\ [](BfsVariant >= 0 /\ (bpc = "done" <=> BfsVariant = 0))
    /\ [][BfsVariant' < BfsVariant]_vars

\* the same, as a liveness property of FairSpecBfs
C4_EventuallyReturns == <>(bpc = "done" /\ queue = <<>>)

\* a run that came to its end over a ledger with a cycle or a self-transfer,
\* from both of whose ends the traversal expanded
C4_Witness ==
    /\ bpc = "done"
    /\ max_depth = MaxDepth
    /\ \E i, j \in 1..Len(ledger.normal) :
          /\ ledger.normal[i].from = ledger.normal[j].to
          /\ ledger.normal[i].to = ledger.normal[j].from
          /\ ledger.normal[i].from \in DOMAIN graph
          /\ ledger.normal[i].to \in DOMAIN graph

\* C8: a failed fetch does not abort the run: no exception leaves bfs_expand,
\* the address whose fetch failed is recorded as a node, and once the run has
\* returned every address that was ever put on the queue has been processed
\* and is a node of the returned graph.
C8_FailedFetchDoesNotAbort ==
    /\ bpc # "raised"
    /\ \A i \in 1..Len(analysed) : analysed[i].address \in DOMAIN graph
    /\ bpc = "done" =>
          /\ \A i \in 1..Len(enqueued) : enqueued[i].address \in DOMAIN result.graph
          /\ Len(analysed) = Len(enqueued)

\* a returned run in which a fetch failed and a later queue entry was processed
C8_Witness ==
    /\ bpc = "done"
    /\ \E i \in 1..Len(analysed) :
          /\ analysed[i].failed # {}
          /\ i < Len(analysed)
          /\ analysed[i].address \in DOMAIN result.graph

\* C9: a node whose fetch failed carries fetch_failed = true in the returned
\* graph.
C9_FailedNodeIsMarked ==
    bpc = "done" =>
        \A i \in 1..Len(analysed) :
            analysed[i].failed # {} =>
                LET node == result.graph[analysed[i].address]
                IN \/ ("fetch_failed" \in DOMAIN node /\ node.fetch_failed)
                   \/ ("fetch_failed" \in DOMAIN node.analysis /\ node.analysis.fetch_failed)

(***************************************************************************)
(* Claims about the monitor daemon (under SpecDaemon)                      *)
(***************************************************************************)
\* what check_addresses read for an address, and what the state held before
NewBalance(a) == Get(lastCheck.balances, a, 0)
NewTxCount(a) == Get(lastCheck.tx_counts, a, 0)
PrevBalance(a) == Get(Get(lastCheck.prev, a, NoSnapshot), "balance", 0)
PrevTxCount(a) == Get(Get(lastCheck.prev, a, NoSnapshot), "tx_count", 0)
AlertsOf(a) == {i \in 1..Len(alerts) : alerts[i].address = a}

\* C5: in one check_addresses cycle an address gets an alert exactly when
\* |new balance - previous balance| >= the threshold or its transaction count
\* went up; it gets at most one, and the alert carries new - previous
\* (stated for the cycles in which both batch fetches succeeded).
C5_AlertExactlyOnMaterialChange ==
    (dpc = "save_state" /\ lastCheck.balances_ok /\ lastCheck.tx_counts_ok) =>
        \A a \in Watched :
            /\ Cardinality(AlertsOf(a)) <= 1
            /\ AlertsOf(a) # {} <=>
                  \/ Abs(NewBalance(a) - PrevBalance(a)) >= MIN_BALANCE_CHANGE
                  \/ NewTxCount(a) - PrevTxCount(a) > 0
            /\ \A i \in AlertsOf(a) :
                  alerts[i].balance_change_eth = NewBalance(a) - PrevBalance(a)

\* C6: once a cycle has completed (no write having failed in it), every alert
\* check_addresses emitted in it is in the persisted alert log, also when no
\* alert log existed before.
C6_EmittedAlertsArePersisted ==
    (dpc \in {"sleep", "error_sleep"} /\ cycleError # "OSError") =>
        \A i \in 1..Len(alerts) :
            /\ alertsFile.kind = "json"
            /\ alertsFile.data.type = "list"
            /\ alerts[i] \in Range(alertsFile.data.value)

\* C7: when the process is killed, each file on disk is a complete version
\* (the previous one or the new one), never an empty or partial one.
C7_FilesCompleteAfterCrash ==
    dpc = "crashed" => stateFile.kind # "partial" /\ alertsFile.kind # "partial"

\* the transfers to the address, and from it (a self-transfer is an outflow)
InflowsOf(address, txs) ==
    {i \in 1..Len(txs) : Lower(txs[i].to) = address /\ Lower(txs[i].from) # address}
OutflowsOf(address, txs) == {i \in 1..Len(txs) : Lower(txs[i].from) = address}
SentTo(address, txs, d) == {i \in OutflowsOf(address, txs) : Lower(txs[i].to) = d}

\* the destinations that receive more outflow transfers than any other one
ModalDestination(address, txs) ==
    {d \in {Lower(txs[i].to) : i \in OutflowsOf(address, txs)} :
        \A i \in OutflowsOf(address, txs) :
            Lower(txs[i].to) # d =>
                Cardinality(SentTo(address, txs, Lower(txs[i].to)))
                    < Cardinality(SentTo(address, txs, d))}

GrantsInWindow(w) ==
    Cardinality({i \in 1..Len(grants) : w <= grants[i] /\ grants[i] < w + TicksPerSecond})

\* C1: within any rolling one-second window at most RATE_LIMIT calls of
\* acquire() return, for any number of threads sharing the limiter.
C1_AtMostRatePerRollingSecond ==
    \A w \in 0..MaxTime : GrantsInWindow(w) <= RATE_LIMIT

(***************************************************************************)
(* Claims about batch_trace (under SpecBatch)                              *)
(***************************************************************************)
\* the submissions of one input address
SubmissionsOf(addr) == {i \in 1..Len(batch_addresses) : batch_addresses[i] = addr}

\* C12: batch_trace returns without raising, with exactly one slot per input
\* address; a slot holds the outcome of a trace of that address: the error
\* record if the trace raised, its result otherwise, so the failure of one
\* address leaves the slots of the others as they are.
C12_OneSlotPerAddressFailuresCaptured ==
    /\ bapc # "raised"
    /\ bapc = "returned" =>
          /\ DOMAIN results = Range(batch_addresses)
          /\ \A addr \in DOMAIN results :
                \E i \in SubmissionsOf(addr) :
                    results[addr] = IF futures[i].outcome.raised
                                    THEN ErrorSlot
                                    ELSE [address |-> Lower(addr), depth |-> 0]

\* a batch of two different addresses has returned, one trace having raised
C12_Witness ==
    /\ bapc = "returned"
    /\ \E i, j \in 1..Len(futures) :
          /\ batch_addresses[i] # batch_addresses[j]
          /\ futures[i].outcome.raised
          /\ ~futures[j].outcome.raised
          /\ results[batch_addresses[i]] = ErrorSlot
          /\ results[batch_addresses[j]] # ErrorSlot

\* C13: an address that occurs several times in the input is traced once.
C13_DuplicatesTracedOnce ==
    \A i, j \in 1..Len(traced) : traced[i] = traced[j] => i = j

(***************************************************************************)
(* Claims about the daemon's shutdown and restart (under SpecDaemon)       *)
(***************************************************************************)
\* C14: once a stop signal has cleared the running flag no new cycle starts;
\* the signal itself changes neither the daemon's position nor its state nor
\* a file, so the cycle in progress runs on through the write of the state
\* file; and when the daemon has exited after a completed cycle (no write
\* having failed) the state file holds the state it computed.
C14_StopSignalIsCooperative ==
    /\ [][(~running /\ dpc = "loop_top") => dpc' \in {"stopped", "crashed"}]_vars
    /\ [][(running /\ ~running' /\ dpc # "crashed") =>
             UNCHANGED <<dpc, dstate, stateFile, alertsFile, alerts>>]_vars
    /\ []((dpc = "stopped" /\ check_count > 0 /\ ioFailures = 0) =>
             stateFile = Json(dstate))

\* the flag is cleared while the state file is being written
C14_Witness ==
    /\ ~running
    /\ dpc = "state_open"
    /\ stateFile = Partial

\* C15: a cycle computes its deltas against the snapshot that was last
\* persisted, also in the first cycle after a crash and restart: whenever a
\* state has been persisted (and no write of it was refused since), the
\* baseline of the cycle is that state's snapshot map.
C15_DeltaAgainstLastPersistedSnapshot ==
    (dpc = "save_state" /\ ioFailures = 0 /\ persisted.kind = "json") =>
        lastCheck.prev = Get(persisted.data.value, "addresses", NoSnapshot)

\* C16: an existing alert log holds at most MAX_ALERTS entries, and they are
\* the most recently appended alerts in the order they were appended.
C16_AlertLogIsBoundedFifo ==
    (alertsFile.kind = "json" /\ alertsFile.data.type = "list") =>
        LET log == alertsFile.data.value
            evicted == Len(appended) - Len(log)
        IN /\ Len(log) <= MAX_ALERTS
           /\ evicted >= 0
           /\ evicted > 0 => Len(log) = MAX_ALERTS
           /\ \A i \in 1..Len(log) : log[i] = appended[evicted + i]

\* the log is full and older alerts have been evicted
C16_Witness ==
    /\ alertsFile.kind = "json"
    /\ alertsFile.data.type = "list"
    /\ Len(alertsFile.data.value) = MAX_ALERTS
    /\ Len(appended) > MAX_ALERTS

(***************************************************************************)
(* Further claims about bfs_expand (under SpecBfs)                         *)
(***************************************************************************)
\* the entries of the returned touchpoint list that are about one address
TouchpointsOf(address) ==
    {i \in 1..Len(result.kyc_touchpoints) : result.kyc_touchpoints[i].address = address}

\* C17: the touchpoint list bfs_expand returns holds exactly one entry for
\* every address it classified as a deposit funnel (an address outside the
\* table that sweeps to a known wallet), at whatever depth it was reached.
C17_OneTouchpointPerFunnel ==
    bpc = "done" =>
        \A address \in DOMAIN result.graph :
            (result.graph[address].analysis.is_exchange_deposit /\ address \notin Known)
                => Cardinality(TouchpointsOf(address)) = 1

(***************************************************************************)
(* Claims about trace_hops (under SpecHops)                                *)
(***************************************************************************)
\* C18: with depth = 0 the returned graph has exactly one node, the start
\* address.
C18_DepthZeroGivesTheSeedNode ==
    (hpc = "done" /\ hop_depth = 0) => DOMAIN hops = {Lower(start_address)}

\* C19 as stated: every recorded transfer from a hop u to an address v that
\* is a hop itself has depth(v) = depth(u) + 1.
C19_EveryTransferGoesOneDeeper ==
    hpc = "done" =>
        \A u \in DOMAIN hops : \A i \in 1..Len(hops[u].transfers) :
            hops[u].transfers[i].to \in DOMAIN hops =>
                hops[hops[u].transfers[i].to].depth = hops[u].depth + 1

\* C19, amended: every hop other than the start was reached over a recorded
\* transfer from the hop before it on its path, and lies one deeper than
\* that hop; the start lies at depth 0.
C19_HopIsOneDeeperThanItsParent ==
    \A v \in DOMAIN hops :
        LET path == hops[v].path
        IN /\ Len(path) = hops[v].depth + 1
           /\ path[1] = Lower(start_address)
           /\ path[Len(path)] = v
           /\ hops[v].depth > 0 =>
                 LET u == path[Len(path) - 1]
                 IN /\ u \in DOMAIN hops
                    /\ hops[v].depth = hops[u].depth + 1
                    /\ \E i \in 1..Len(hops[u].transfers) : hops[u].transfers[i].to = v

\* a returned graph over a cycle: a hop below the start with a transfer back
\* to the start
C19_Witness ==
    /\ hpc = "done"
    /\ \E v \in DOMAIN hops :
          /\ hops[v].depth = 1
          /\ \E i \in 1..Len(hops[v].transfers) :
                hops[v].transfers[i].to = Lower(start_address)

\* the peers of an address along the traversed direction(s), by the ledger
PeersOf(u) ==
    {tx.to : tx \in {t \in Range(ledger.normal \o ledger.erc20) :
                        t.from = u /\ direction \in {"out", "both"}}}
    \cup {tx.from : tx \in {t \in Range(ledger.normal \o ledger.erc20) :
                               t.to = u /\ direction \in {"in", "both"}}}

\* the addresses within k hops of the seed set; a known hot wallet is never
\* stepped onto (it can only be a seed)
RECURSIVE Within(_)
Within(k) ==
    IF k = 0 THEN {Lower(seed_addresses[i]) : i \in 1..Len(seed_addresses)}
    ELSE Within(k - 1) \cup {w \in UNION {PeersOf(u) : u \in Within(k - 1)} : w \notin Known}

C21_NodesAreTheVisitedSet ==
    bpc = "done" =>
        /\ DOMAIN result.graph = visited
        /\ result.total_addresses_discovered = Cardinality(DOMAIN result.graph)

\* a returned run with a seed given twice and two expanded addresses
C21_Witness ==
    /\ bpc = "done"
    /\ Len(seed_addresses) = 2
    /\ Lower(seed_addresses[1]) = Lower(seed_addresses[2])
    /\ Cardinality(DOMAIN result.graph) = 3

(***************************************************************************)
(* Claims about ties between outflow destinations (under SpecClassify)     *)
(***************************************************************************)
\* the destinations no other destination receives more outflow transfers than
TopDestinations(address, txs) ==
    {d \in {Lower(txs[i].to) : i \in OutflowsOf(address, txs)} :
        \A i \in OutflowsOf(address, txs) :
            Cardinality(SentTo(address, txs, Lower(txs[i].to)))
                <= Cardinality(SentTo(address, txs, d))}

\* the position in the transfer list of the first transfer to d
FirstSeen(address, txs, d) ==
    CHOOSE i \in SentTo(address, txs, d) : \A j \in SentTo(address, txs, d) : i <= j

\* of the top destinations the one whose first transfer comes earliest
EarliestTopDestination(address, txs) ==
    CHOOSE d \in TopDestinations(address, txs) :
        \A e \in TopDestinations(address, txs) :
            FirstSeen(address, txs, d) <= FirstSeen(address, txs, e)

\* C22: when several outflow destinations tie for the highest transfer
\* count, the modal destination is the one that appears earliest in the
\* transfer list: the result is (True, its label) when that one is in the
\* table and (False, None) when it is not.
C22_TieGoesToEarliestDestination ==
    LET address == Lower(cAddress)
    IN (/\ cpc = "returned"
        /\ address \notin Known
        /\ Cardinality(InflowsOf(address, cTxs)) \in MIN_INFLOWS..MAX_INFLOWS
        /\ Cardinality(TopDestinations(address, cTxs)) > 1)
       => LET d == EarliestTopDestination(address, cTxs)
          IN cResult = IF d \in Known THEN <<TRUE, KNOWN_EXCHANGE_HOT_WALLETS[d]>>
                       ELSE <<FALSE, None>>

\* a tie between a table entry seen first and an address outside the table
C22_Witness ==
    LET address == Lower(cAddress)
    IN /\ cpc = "returned"
       /\ address \notin Known
       /\ Cardinality(InflowsOf(address, cTxs)) \in MIN_INFLOWS..MAX_INFLOWS
       /\ Cardinality(TopDestinations(address, cTxs)) > 1
       /\ EarliestTopDestination(address, cTxs) \in Known
       /\ \E e \in TopDestinations(address, cTxs) : e \notin Known
       /\ cResult[1]

TransfersOf(address) ==
    {i \in 1..Len(ledger.normal) :
        ledger.normal[i].from = address \/ ledger.normal[i].to = address}
    \cup {i \in 1..Len(ledger.erc20) :
        ledger.erc20[i].from = address \/ ledger.erc20[i].to = address}

LoneSeedWithoutTransfers ==
    /\ Len(seed_addresses) = 1
    /\ max_depth = 2
    /\ TransfersOf(Lower(seed_addresses[1])) = {}

C24_DequeuedAddressIsRecorded ==
    /\ \A i \in 1..Len(analysed) :
          /\ analysed[i].address \in DOMAIN graph
          /\ graph[analysed[i].address].depth = analysed[i].depth
    /\ (bpc = "done" /\ LoneSeedWithoutTransfers) =>
          LET seed == Lower(seed_addresses[1])
          IN /\ DOMAIN result.graph = {seed}
             /\ result.graph[seed].depth = 0
             /\ result.graph[seed].analysis.tx_count = 0
             /\ ~result.graph[seed].analysis.is_exchange_deposit
             /\ result.total_addresses_discovered = 1
             /\ result.kyc_touchpoints = <<>>

\* the lone seed without transfers has been dequeued and the run returned,
\* on a ledger that holds transfers between other addresses
C24_Witness ==
    /\ bpc = "done"
    /\ LoneSeedWithoutTransfers
    /\ Len(ledger.normal) = MaxLedger
    /\ Len(analysed) = 1

(***************************************************************************)
(* C25: a failed write of the state file or of the alert log does not end  *)
(* the daemon: the error is logged, the loop goes on, and the failed write *)
(* is retried in the next cycle, so that the alerts of the failed cycle    *)
(* are in the alert log once a later cycle has completed.                  *)
(***************************************************************************)
\* an alert log that exists and holds a list (append_alerts can extend it)
AlertLogUsable == alertsFile.kind = "json" /\ alertsFile.data.type = "list"

C25_FailedWriteIsRetriedNextCycle ==
    /\ (cycleError = "OSError" /\ crashes = 0) => dpc \in {"error_sleep", "loop_top", "stopped"}
    /\ (/\ dpc = "sleep"
        /\ cycleError = None
        /\ ioFailures > 0
        /\ crashes = 0
        /\ AlertLogUsable)
       => \A i \in 1..Len(emitted) : emitted[i] \in Range(appended)

(***************************************************************************)
(* C26: an address whose outflows to a known exchange wallet are all dust  *)
(* (value 0 here) is not classified as an exchange deposit funnel: dust    *)
(* transfers are filtered out before funnel detection.                     *)
(***************************************************************************)
C26_DustSweepIsNotAFunnel ==
    LET address == Lower(cAddress)
    IN (/\ cpc = "returned"
        /\ address \notin Known
        /\ \A i \in OutflowsOf(address, cTxs) :
              Lower(cTxs[i].to) \in Known => cTxs[i].value = 0)
       => cResult = <<FALSE, None>>

(***************************************************************************)
(* C27: over any interval of length T the limiter grants at most           *)
(* RATE_LIMIT + RATE_LIMIT * T permits (capacity plus refill): the time    *)
(* slept inside acquire() is not credited again by a later acquire().      *)
(* T is counted in ticks of 1 / RATE_LIMIT second, one token per tick.     *)
(***************************************************************************)
\* the returns of acquire() from time s to time e, both included
GrantsBetween(s, e) == Cardinality({i \in 1..Len(grants) : s <= grants[i] /\ grants[i] <= e})

C27_AtMostCapacityPlusRefill ==
    \A s, e \in 0..MaxTime : s <= e => GrantsBetween(s, e) <= RATE_LIMIT + (e - s)

(***************************************************************************)
(* Claims about trace_address_with_depth (under SpecDepth)                 *)
(***************************************************************************)
\* the destinations one outflow of at least the minimum value away from u,
\* known exchanges left out
TraceSuccessors(u) ==
    {flows[i].to : i \in {k \in 1..Len(flows) :
                             /\ flows[k].from = u
                             /\ flows[k].value >= MIN_VALUE_ETH
                             /\ flows[k].to \notin DOMAIN KNOWN_EXCHANGES}}

\* the addresses at most k outflows away from the start address
RECURSIVE TraceWithin(_)
TraceWithin(k) ==
    IF k = 0 THEN {Lower(trace_start)}
    ELSE TraceWithin(k - 1) \cup UNION {TraceSuccessors(u) : u \in TraceWithin(k - 1)}

\* C28: trace_address_with_depth traces every address whose shortest
\* outflow-path distance from the start is at most max_depth, and records it
\* with depth equal to that distance, whatever the order in which the
\* destinations of a node are visited (stated for runs without failed fetch).
C28_DepthIsShortestOutflowDistance ==
    (tpc = "done" /\ trace_failed = 0) =>
        \A k \in 0..trace_max_depth :
            \A v \in TraceWithin(k) \ (IF k = 0 THEN {} ELSE TraceWithin(k - 1)) :
                \E i \in 1..Len(trace_results) :
                    trace_results[i].address = v /\ trace_results[i].depth = k

(***************************************************************************)
(* C29: in trace_hops every transfer of at least min_eth from an expanded  *)
(* address to an address with a known label produces an endpoint record    *)
(* for that address, whatever the kind of the label (exchange, mixer, DEX  *)
(* or other).                                                              *)
(***************************************************************************)
C29_EveryLabelledDestinationIsAnEndpoint ==
    hpc = "done" =>
        \A h \in DOMAIN hops :
            \A i \in 1..Len(hops[h].transfers) :
                LET t == hops[h].transfers[i]
                IN t.label # None =>
                      \E e \in 1..Len(endpoints) :
                          /\ endpoints[e].address = t.to
                          /\ endpoints[e].label = t.label
                          /\ endpoints[e].from_path = Append(hops[h].path, t.to)

(***************************************************************************)
(* C30: when the balance or the transaction-count fetch of a cycle fails   *)
(* (batch_rpc_call returns no results) check_addresses emits no alert for  *)
(* the affected addresses and leaves their previous snapshots as they      *)
(* were; it does not record a balance and a count of zero.                 *)
(***************************************************************************)
SnapshotOf(addresses, a) == Get(addresses, a, NoSnapshot)

C30_FailedFetchLeavesSnapshots ==
    (dpc = "save_state" /\ ~(lastCheck.balances_ok /\ lastCheck.tx_counts_ok)) =>
        \A a \in Watched :
            /\ AlertsOf(a) = {}
            /\ SnapshotOf(dstate.value.addresses, a) = SnapshotOf(lastCheck.prev, a)

====
